---- MODULE Spec2Model ----
(***************************************************************************)
(* A model of server.py: the module-level Settings() load, and the         *)
(* GET /session handler realtime_chat_session, which posts one fixed       *)
(* request to the upstream API with httpx and relays the answer.           *)
(*                                                                         *)
(* Texts (response bodies) are sequences of lexical tokens, so that        *)
(* resp.json() and the framework's JSON rendering are real conversions.    *)
(***************************************************************************)
EXTENDS Integers, Sequences, FiniteSets

(***************************************************************************)
(* Bounds of the model.                                                    *)
(***************************************************************************)
\* number of GET /session requests the callers make
MaxReqs == 2

Reqs == 1..MaxReqs

(***************************************************************************)
(* Program constants.                                                      *)
(***************************************************************************)
\* httpx.AsyncClient(timeout=30): seconds
Timeout == 30
\* the one status the handler treats as success
StatusOK == 200

\* Time advances in steps of half the timeout.
TickSeconds == Timeout \div 2

(***************************************************************************)
(* Texts: sequences of tokens.                                             *)
(***************************************************************************)
\* punctuation  { } : ,
P(c) == [k |-> "p", s |-> c]
\* a string literal "x"
S(x) == [k |-> "str", s |-> x]
\* a number literal
N(x) == [k |-> "num", s |-> x]
\* one blank
W == [k |-> "ws", s |-> " "]
\* a bare word (JSON only when it is one of the literals the parser knows)
R(x) == [k |-> "raw", s |-> x]

(***************************************************************************)
(* JSON values, as Python's json module builds them.                       *)
(***************************************************************************)
JStr(x)   == [t |-> "str", s |-> x]
JInt(x)   == [t |-> "int", i |-> x]
JFloat(x) == [t |-> "float", f |-> x]
JLit(x)   == [t |-> "lit", l |-> x]
JObj(m)   == [t |-> "dict", m |-> m]

\* int(): the canonical decimal of an integer literal
py_int(lit) == IF lit = "-0" THEN "0" ELSE lit

\* float(): the repr of the double a literal with a fraction or an exponent denotes
py_float(lit) ==
  CASE lit = "1e2"   -> "100.0"
    [] lit = "100.0" -> "100.0"
    [] lit = "1e999" -> "inf"
    [] OTHER         -> lit

IsFloatLiteral(lit) == lit \in {"1e2", "100.0", "1e999"}

NonFinite == {"inf", "-inf", "nan"}

\* dict[key] = val: a repeated key keeps its place and takes the new value
DictPut(m, key, val) ==
  IF \E j \in 1..Len(m) : m[j].key = key
    THEN [j \in 1..Len(m) |-> IF m[j].key = key THEN [key |-> key, val |-> val] ELSE m[j]]
    ELSE Append(m, [key |-> key, val |-> val])

Fail == [ok |-> FALSE]
Ok(v, n) == [ok |-> TRUE, val |-> v, next |-> n]

RECURSIVE SkipWs(_, _)
SkipWs(t, i) ==
  IF i <= Len(t) /\ t[i].k = "ws" THEN SkipWs(t, i + 1) ELSE i

IsP(t, i, c) == i <= Len(t) /\ t[i].k = "p" /\ t[i].s = c

RECURSIVE ParseValue(_, _)
RECURSIVE ParseMembers(_, _, _)

\* json.scanner: one value starting at token i
ParseValue(t, i) ==
  IF i > Len(t) THEN Fail
  ELSE CASE t[i].k = "str" -> Ok(JStr(t[i].s), i + 1)
         [] t[i].k = "num" ->
              IF IsFloatLiteral(t[i].s)
                THEN Ok(JFloat(py_float(t[i].s)), i + 1)
                ELSE Ok(JInt(py_int(t[i].s)), i + 1)
         [] t[i].k = "raw" ->
              CASE t[i].s \in {"null", "true", "false"} -> Ok(JLit(t[i].s), i + 1)
                [] t[i].s = "NaN"       -> Ok(JFloat("nan"), i + 1)
                [] t[i].s = "Infinity"  -> Ok(JFloat("inf"), i + 1)
                [] t[i].s = "-Infinity" -> Ok(JFloat("-inf"), i + 1)
                [] OTHER -> Fail
         [] IsP(t, i, "{") ->
              LET j == SkipWs(t, i + 1) IN
                IF IsP(t, j, "}") THEN Ok(JObj(<< >>), j + 1)
                ELSE ParseMembers(t, j, << >>)
         [] OTHER -> Fail

\* json.decoder.JSONObject: "key" : value, then "," and another member, or "}"
ParseMembers(t, i, acc) ==
  IF ~(i <= Len(t) /\ t[i].k = "str") THEN Fail
  ELSE LET c == SkipWs(t, i + 1) IN
    IF ~IsP(t, c, ":") THEN Fail
    ELSE LET v == ParseValue(t, SkipWs(t, c + 1)) IN
      IF ~v.ok THEN Fail
      ELSE LET acc2 == DictPut(acc, t[i].s, v.val)
               e == SkipWs(t, v.next) IN
        CASE IsP(t, e, "}") -> Ok(JObj(acc2), e + 1)
          [] IsP(t, e, ",") -> ParseMembers(t, SkipWs(t, e + 1), acc2)
          [] OTHER -> Fail

\* resp.json(): json.loads of the whole body; anything after the value is an error
json_loads(t) ==
  LET v == ParseValue(t, SkipWs(t, 1)) IN
    IF v.ok /\ SkipWs(t, v.next) = Len(t) + 1 THEN [ok |-> TRUE, val |-> v.val]
    ELSE Fail

RECURSIVE HasNonFinite(_)
HasNonFinite(v) ==
  CASE v.t = "float" -> v.f \in NonFinite
    [] v.t = "dict"  -> \E j \in 1..Len(v.m) : HasNonFinite(v.m[j].val)
    [] OTHER -> FALSE

RECURSIVE json_dumps(_)
RECURSIVE DumpMembers(_, _)

\* json.dumps(content, allow_nan=False, separators=(",", ":")) for a value
\* without NaN or Infinity
json_dumps(v) ==
  CASE v.t = "str"   -> << S(v.s) >>
    [] v.t = "int"   -> << N(v.i) >>
    [] v.t = "float" -> << N(v.f) >>
    [] v.t = "lit"   -> << R(v.l) >>
    [] v.t = "dict"  -> << P("{") >> \o DumpMembers(v.m, 1) \o << P("}") >>

DumpMembers(m, j) ==
  IF j > Len(m) THEN << >>
  ELSE (IF j > 1 THEN << P(",") >> ELSE << >>)
       \o << S(m[j].key), P(":") >> \o json_dumps(m[j].val)
       \o DumpMembers(m, j + 1)

(***************************************************************************)
(* Configuration: class Settings(BaseSettings) and the module-level        *)
(* settings = Settings().                                                  *)
(***************************************************************************)
\* the variable is not set (in os.environ, or in the .env file)
Unset == "<unset>"

\* what os.environ may hold for OPENAI_API_KEY when the process starts
EnvValues == {Unset, "", "sk-test"}
\* what the .env file may hold for OPENAI_API_KEY
DotEnvValues == {Unset, "sk-file", "sk-rotated"}

\* the value pydantic-settings finds: os.environ first, then the .env file
EnvLookup(env, dotenv) == IF env # Unset THEN env ELSE dotenv

\* Settings(): OPENAI_API_KEY: str is required (any string, "" included,
\* validates); a missing value raises ValidationError
Settings(env, dotenv) ==
  IF EnvLookup(env, dotenv) = Unset
    THEN [ok |-> FALSE, OPENAI_API_KEY |-> Unset]
    ELSE [ok |-> TRUE, OPENAI_API_KEY |-> EnvLookup(env, dotenv)]

(***************************************************************************)
(* The handler realtime_chat_session.                                      *)
(***************************************************************************)
url == "https://api.openai.com/v1/realtime/sessions"

headers(cfg) ==
  [Authorization |-> << "Bearer ", cfg.OPENAI_API_KEY >>,
   ContentType   |-> "application/json"]

payload == [model |-> "gpt-4o-realtime-preview-2025-06-03", voice |-> "verse"]

\* what the caller put in its GET /session (query string, body, headers);
\* "" is a field the caller left out
CallerInputs ==
  { [model |-> "", voice |-> ""], [model |-> "gpt-caller", voice |-> "alloy"] }

NoInput == [model |-> "", voice |-> ""]

NoRequest ==
  [method |-> "", url |-> "",
   headers |-> [Authorization |-> << "", "" >>, ContentType |-> ""],
   json |-> [model |-> "", voice |-> ""]]
\* a handler that lets the caller choose the model and the voice
BuildRequestFromCaller(cfg, input) ==
  [method |-> "POST", url |-> url, headers |-> headers(cfg),
   json |-> [model |-> IF input.model = "" THEN payload.model ELSE input.model,
             voice |-> IF input.voice = "" THEN payload.voice ELSE input.voice]]

\* client.post(url, headers=headers, json=payload): the handler declares no
\* parameter of the incoming request, so input is not used
BuildRequest(cfg, input) ==
  [method |-> "POST", url |-> url, headers |-> headers(cfg), json |-> payload]

NoUpstream == [kind |-> "none", status_code |-> 0, text |-> << >>, exc |-> ""]
Response(s, b) == [kind |-> "response", status_code |-> s, text |-> b, exc |-> ""]
Raised(e) == [kind |-> "exception", status_code |-> 0, text |-> << >>, exc |-> e]

\* How the handler ends: a returned value, a raised HTTPException, or an
\* exception nothing catches.
Return(v) == [how |-> "return", val |-> v, status_code |-> StatusOK, detail |-> << >>, exc |-> ""]
HTTPException(s, d) == [how |-> "http_exception", val |-> JLit("null"), status_code |-> s, detail |-> d, exc |-> ""]
Unhandled(e) == [how |-> "unhandled", val |-> JLit("null"), status_code |-> 0, detail |-> << >>, exc |-> e]
\* a handler that returns resp.text where the code returns resp.json()
AfterAwaitText(resp) ==
  IF resp.kind = "exception" THEN Unhandled(resp.exc)
  ELSE IF resp.status_code # StatusOK
    THEN HTTPException(resp.status_code, resp.text)
    ELSE IF json_loads(resp.text).ok THEN Return(JStr(resp.text))
         ELSE Unhandled("JSONDecodeError")

\* a handler that raises only for the statuses 400 and above
AfterAwaitErrorsOnly(resp) ==
  IF resp.kind = "exception" THEN Unhandled(resp.exc)
  ELSE IF resp.status_code >= 400
    THEN HTTPException(resp.status_code, resp.text)
    ELSE LET j == json_loads(resp.text) IN
      IF j.ok THEN Return(j.val) ELSE Unhandled("JSONDecodeError")

\* a handler that falls back to the raw text when the body is not JSON
AfterAwaitLenient(resp) ==
  IF resp.kind = "exception" THEN Unhandled(resp.exc)
  ELSE IF resp.status_code # StatusOK
    THEN HTTPException(resp.status_code, resp.text)
    ELSE LET j == json_loads(resp.text) IN
      IF j.ok THEN Return(j.val) ELSE Return(JStr(resp.text))

\* the handler from the point where await client.post(...) returns or raises
AfterAwait(resp) ==
  IF resp.kind = "exception" THEN Unhandled(resp.exc)
  ELSE IF resp.status_code # StatusOK
    THEN HTTPException(resp.status_code, resp.text)
    ELSE LET j == json_loads(resp.text) IN
      IF j.ok THEN Return(j.val) ELSE Unhandled("JSONDecodeError")

\* statuses whose response carries no body
BodyNotAllowed(s) == s < 200 \/ s \in {204, 205, 304}

NoResult == [kind |-> "none", status_code |-> 0, detail |-> << >>, body |-> << >>]
ServerError ==
  [kind |-> "server_error", status_code |-> 500, detail |-> << >>,
   body |-> << R("Internal Server Error") >>]

\* What the framework sends the caller for each way the handler ends: the
\* returned value rendered as JSON (allow_nan=False), the HTTPException as
\* its status with {"detail": ...}, anything else as a 500.
Respond(end) ==
  CASE end.how = "return" ->
         IF HasNonFinite(end.val) THEN ServerError
         ELSE [kind |-> "json", status_code |-> StatusOK, detail |-> << >>,
               body |-> json_dumps(end.val)]
    [] end.how = "http_exception" ->
         [kind |-> "http_exception", status_code |-> end.status_code,
          detail |-> end.detail,
          body |-> IF BodyNotAllowed(end.status_code) THEN << >>
                   ELSE << P("{"), S("detail"), P(":"), P("\"") >> \o end.detail
                        \o << P("\""), P("}") >>]
    [] OTHER -> ServerError

(***************************************************************************)
(* The upstream API, as far as the handler can see it.                     *)
(***************************************************************************)
SessionBody ==
  << P("{"), S("id"), P(":"), W, S("sess_1"), P(","), W,
     S("expires_at"), P(":"), W, N("123"), P("}") >>
ErrorBody == << P("{"), S("error"), P(":"), W, S("invalid_api_key"), P("}") >>
NestedBody ==
  << P("{"), S("client_secret"), P(":"), P("{"), S("value"), P(":"), S("ek_1"),
     P("}"), P(","), S("ttl"), P(":"), N("1e2"), P("}") >>
DupKeyBody ==
  << P("{"), S("id"), P(":"), S("a"), P(","), S("n"), P(":"), N("-0"), P(","),
     S("id"), P(":"), S("b"), P("}") >>
HugeNumberBody == << P("{"), S("ttl"), P(":"), N("1e999"), P("}") >>
NaNBody == << R("NaN") >>
HtmlBody == << R("<html>"), W, R("Bad"), W, R("Gateway") >>
TruncatedBody == << P("{"), S("id"), P(":"), S("sess_1") >>
TrailingBody == << P("{"), P("}"), W, R("x") >>
EmptyBody == << >>

\* the credential the upstream was sent
SentCredential(req) == req.headers.Authorization[2]

\* bodies that repeat the credential of the request they answer
EchoText(req) ==
  << R("Incorrect"), W, R("API"), W, R("key"), W, R("provided:"), W,
     R(SentCredential(req)) >>
EchoJson(req) == << P("{"), S("key"), P(":"), S(SentCredential(req)), P("}") >>

Statuses == {200, 201, 204, 302, 401, 500}
Bodies(req) ==
  { SessionBody, ErrorBody, NestedBody, DupKeyBody, HugeNumberBody, NaNBody,
    HtmlBody, TruncatedBody, TrailingBody, EmptyBody, EchoText(req), EchoJson(req) }

\* the smaller choice used when several requests run at once
CoreInputs == { NoInput }
CoreDotEnvValues == {Unset, "sk-file"}
CoreStatuses == {200, 401}
CoreBodies(req) == { SessionBody, HtmlBody }

(***************************************************************************)
(* State.                                                                  *)
(***************************************************************************)
VARIABLES
  proc,          \* "starting", "serving" or "failed"
  osEnv,         \* OPENAI_API_KEY in os.environ
  dotEnv,        \* OPENAI_API_KEY in the .env file
  settings,      \* the module-level settings object
  pc,            \* per request: "idle", "awaiting" (suspended in client.post) or "done"
  callerInput,   \* per request: what the caller sent
  outbound,      \* per request: the request posted to the upstream
  phase,         \* per request: the network operation client.post waits on
  waited,        \* per request: seconds waited in that operation
  elapsed,       \* per request: seconds since client.post was called
  upstream,      \* per request: what client.post returned or raised
  result,        \* per request: the response sent to the caller
  upstreamCalls  \* number of POSTs issued to the upstream

vars == << proc, osEnv, dotEnv, settings, pc, callerInput, outbound, phase,
           waited, elapsed, upstream, result, upstreamCalls >>

NoSettings == [OPENAI_API_KEY |-> Unset]

Init ==
  /\ proc = "starting"
  /\ osEnv \in EnvValues
  /\ dotEnv \in CoreDotEnvValues
  /\ settings = NoSettings
  /\ pc = [r \in Reqs |-> "idle"]
  /\ callerInput = [r \in Reqs |-> NoInput]
  /\ outbound = [r \in Reqs |-> NoRequest]
  /\ phase = [r \in Reqs |-> "none"]
  /\ waited = [r \in Reqs |-> 0]
  /\ elapsed = [r \in Reqs |-> 0]
  /\ upstream = [r \in Reqs |-> NoUpstream]
  /\ result = [r \in Reqs |-> NoResult]
  /\ upstreamCalls = 0

reqVars == << pc, callerInput, outbound, phase, waited, elapsed, upstream, result, upstreamCalls >>

\* settings = Settings() at import: a ValidationError ends the process
Startup ==
  /\ proc = "starting"
  /\ LET s == Settings(osEnv, dotEnv) IN
       IF s.ok
         THEN /\ settings' = [OPENAI_API_KEY |-> s.OPENAI_API_KEY]
              /\ proc' = "serving"
         ELSE /\ settings' = settings
              /\ proc' = "failed"
  /\ UNCHANGED << osEnv, dotEnv, reqVars >>

\* somebody rewrites the .env file while the server runs
EditDotEnv(v) ==
  /\ proc = "serving"
  /\ v # dotEnv
  /\ dotEnv' = v
  /\ UNCHANGED << proc, osEnv, settings, reqVars >>

\* a dependency that builds the settings anew for each request
DependsFresh == [OPENAI_API_KEY |-> Settings(osEnv, dotEnv).OPENAI_API_KEY]

\* cfg: Settings = Depends(lambda: settings)
Depends == settings

\* GET /session arrives: the handler runs up to await client.post(...)
Invoke(r, input) ==
  /\ proc = "serving"
  /\ pc[r] = "idle"
  /\ pc' = [pc EXCEPT ![r] = "awaiting"]
  /\ callerInput' = [callerInput EXCEPT ![r] = input]
  /\ outbound' = [outbound EXCEPT ![r] = BuildRequest(Depends, input)]
  /\ phase' = [phase EXCEPT ![r] = "connect"]
  /\ upstreamCalls' = upstreamCalls + 1
  /\ UNCHANGED << proc, osEnv, dotEnv, settings, waited, elapsed, upstream, result >>

\* a handler that tries the upstream once more after a failure
FinishWithRetry(r, resp) ==
  /\ pc' = [pc EXCEPT ![r] = "done"]
  /\ phase' = [phase EXCEPT ![r] = "none"]
  /\ waited' = [waited EXCEPT ![r] = 0]
  /\ upstream' = [upstream EXCEPT ![r] = resp]
  /\ result' = [result EXCEPT ![r] = Respond(AfterAwait(resp))]
  /\ upstreamCalls' =
       IF resp.kind = "response" /\ resp.status_code = StatusOK
         THEN upstreamCalls ELSE upstreamCalls + 1
  /\ UNCHANGED << proc, osEnv, dotEnv, settings, callerInput, outbound, elapsed >>

\* a handler that keeps the last upstream response in a module-level
\* variable and answers from it
FinishShared(r, resp) ==
  /\ pc' = [pc EXCEPT ![r] = "done"]
  /\ phase' = [phase EXCEPT ![r] = "none"]
  /\ waited' = [waited EXCEPT ![r] = 0]
  /\ upstream' = [upstream EXCEPT ![r] = resp]
  /\ result' = [result EXCEPT ![r] =
       IF \E q \in Reqs : pc[q] = "done"
         THEN result[CHOOSE q \in Reqs : pc[q] = "done"]
         ELSE Respond(AfterAwait(resp))]
  /\ UNCHANGED << proc, osEnv, dotEnv, settings, callerInput, outbound, elapsed, upstreamCalls >>

\* the handler resumes with what client.post returned or raised, and the
\* framework answers the caller
Finish(r, resp) ==
  /\ pc' = [pc EXCEPT ![r] = "done"]
  /\ phase' = [phase EXCEPT ![r] = "none"]
  /\ waited' = [waited EXCEPT ![r] = 0]
  /\ upstream' = [upstream EXCEPT ![r] = resp]
  /\ result' = [result EXCEPT ![r] = Respond(AfterAwait(resp))]
  /\ UNCHANGED << proc, osEnv, dotEnv, settings, callerInput, outbound, elapsed, upstreamCalls >>

\* time passes while client.post waits on a network operation
Tick(r) ==
  /\ pc[r] = "awaiting"
  /\ waited[r] < Timeout
  /\ waited' = [waited EXCEPT ![r] = @ + TickSeconds]
  /\ elapsed' = [elapsed EXCEPT ![r] = @ + TickSeconds]
  /\ UNCHANGED << proc, osEnv, dotEnv, settings, pc, callerInput, outbound, phase, upstream, result, upstreamCalls >>

\* the connection is made, then the request is written: the next operation
\* starts with its own timeout
OperationDone(r) ==
  /\ pc[r] = "awaiting"
  /\ phase[r] \in {"connect", "write"}
  /\ waited[r] < Timeout
  /\ phase' = [phase EXCEPT ![r] = IF @ = "connect" THEN "write" ELSE "read"]
  /\ waited' = [waited EXCEPT ![r] = 0]
  /\ UNCHANGED << proc, osEnv, dotEnv, settings, pc, callerInput, outbound, elapsed, upstream, result, upstreamCalls >>

\* timeout=30 applies to each operation: the one waited on has taken 30 s
OperationTimeout(r) ==
  /\ pc[r] = "awaiting"
  /\ waited[r] >= Timeout
  /\ Finish(r, Raised(CASE phase[r] = "connect" -> "ConnectTimeout"
                        [] phase[r] = "write" -> "WriteTimeout"
                        [] OTHER -> "ReadTimeout"))

\* the upstream cannot be reached
ConnectFails(r) ==
  /\ pc[r] = "awaiting"
  /\ phase[r] = "connect"
  /\ waited[r] < Timeout
  /\ Finish(r, Raised("ConnectError"))

\* the upstream's response is read
UpstreamResponds(r, s, b) ==
  /\ pc[r] = "awaiting"
  /\ phase[r] = "read"
  /\ waited[r] < Timeout
  /\ Finish(r, Response(s, b))

\* several requests at once, the upstream answering from the smaller choice
Next ==
  \/ Startup
  \/ \E v \in CoreDotEnvValues : EditDotEnv(v)
  \/ \E r \in Reqs : \E input \in CoreInputs : Invoke(r, input)
  \/ \E r \in Reqs : Tick(r)
  \/ \E r \in Reqs : OperationDone(r)
  \/ \E r \in Reqs : OperationTimeout(r)
  \/ \E r \in Reqs : ConnectFails(r)
  \/ \E r \in Reqs : \E s \in CoreStatuses : \E b \in CoreBodies(outbound[r]) :
       UpstreamResponds(r, s, b)

Spec == Init /\ [][Next]_vars

\* one request, the upstream answering with any status and any body
NextSingle ==
  \/ Startup
  \/ \E v \in DotEnvValues : EditDotEnv(v)
  \/ \E input \in CallerInputs : Invoke(1, input)
  \/ Tick(1)
  \/ OperationDone(1)
  \/ OperationTimeout(1)
  \/ ConnectFails(1)
  \/ \E s \in Statuses : \E b \in Bodies(outbound[1]) : UpstreamResponds(1, s, b)

SpecSingle == Init /\ [][NextSingle]_vars

(***************************************************************************)
(* Properties.                                                             *)
(***************************************************************************)
Done(r) == pc[r] = "done"
Got200(r) == Done(r) /\ upstream[r].kind = "response" /\ upstream[r].status_code = 200
GotNon200(r) == Done(r) /\ upstream[r].kind = "response" /\ upstream[r].status_code # 200

\* the text contains the word w (as a string literal or as a bare word)
Contains(text, w) ==
  \E i \in 1..Len(text) : text[i].k \in {"str", "raw"} /\ text[i].s = w

\* two texts are JSON documents with the same content
SameJson(a, b) ==
  /\ json_loads(a).ok
  /\ json_loads(b).ok
  /\ json_loads(a).val = json_loads(b).val

\* the text is a JSON document whose numbers are all finite
FiniteJson(t) == json_loads(t).ok /\ ~HasNonFinite(json_loads(t).val)

\* the text is a JSON document (NaN and Infinity are not JSON, though
\* json.loads reads them)
ValidJson(t) ==
  /\ json_loads(t).ok
  /\ \A i \in 1..Len(t) : ~(t[i].k = "raw" /\ t[i].s \in {"NaN", "Infinity", "-Infinity"})

\* C1 as stated: whenever the upstream answers 200 with body B, the caller
\* gets 200 with the same JSON content as B.
C1_RelayAny200 ==
  \A r \in Reqs : Got200(r) =>
    /\ result[r].kind = "json"
    /\ result[r].status_code = 200
    /\ SameJson(result[r].body, upstream[r].text)

\* C1, amended: whenever the upstream answers 200 with a body B that is a
\* JSON document with finite numbers only, the caller gets 200 with a body
\* that has the same JSON content as B.
C1_Relay200Json ==
  \A r \in Reqs : (Got200(r) /\ FiniteJson(upstream[r].text)) =>
    /\ result[r].kind = "json"
    /\ result[r].status_code = 200
    /\ SameJson(result[r].body, upstream[r].text)

\* a 200 with a JSON body was relayed, and the text sent differs from the
\* text received (it was parsed and rendered again)
C1_Witness ==
  \E r \in Reqs :
    /\ Got200(r)
    /\ upstream[r].text = NestedBody
    /\ result[r].kind = "json"
    /\ result[r].body # upstream[r].text

\* C2: whenever the upstream answers a status S other than 200 with body
\* text T, the handler raises an HTTP error with status S and detail T.
C2_Non200IsHttpError ==
  \A r \in Reqs : GotNon200(r) =>
    /\ result[r].kind = "http_exception"
    /\ result[r].status_code = upstream[r].status_code
    /\ result[r].detail = upstream[r].text

\* a 2xx other than 200, with a JSON body, ended as an HTTP error
C2_Witness ==
  \E r \in Reqs :
    /\ GotNon200(r)
    /\ upstream[r].status_code = 201
    /\ upstream[r].text = SessionBody
    /\ result[r].kind = "http_exception"

\* C3 as stated: no response body sent to the caller contains the
\* configured credential, whatever the upstream did.
C3_CredentialNeverInBody ==
  \A r \in Reqs : Done(r) => ~Contains(result[r].body, settings.OPENAI_API_KEY)

\* C4 as stated: with OPENAI_API_KEY empty or absent the process never
\* serves, and no request is handled unless it serves.
C4_StartupFailsWithoutKey ==
  /\ osEnv = "" => proc # "serving"
  /\ proc = "serving" => settings.OPENAI_API_KEY \notin {Unset, ""}
  /\ proc # "serving" => \A r \in Reqs : pc[r] = "idle"

\* C5 as stated: an upstream call that took longer than 30 seconds ends as
\* a server error, never as a 200.
C5_SlowCallFails ==
  \A r \in Reqs : (Done(r) /\ elapsed[r] > 30) =>
    /\ result[r].kind = "server_error"
    /\ result[r].status_code # 200

\* C6: every request sent to the upstream is a POST to the fixed URL with
\* the fixed payload, whatever the caller sent.
C6_FixedOutboundRequest ==
  \A r \in Reqs : pc[r] # "idle" =>
    /\ outbound[r].method = "POST"
    /\ outbound[r].url = "https://api.openai.com/v1/realtime/sessions"
    /\ outbound[r].json = [model |-> "gpt-4o-realtime-preview-2025-06-03", voice |-> "verse"]

\* a caller that asked for another model and voice had its request sent on
C6_Witness ==
  \E r \in Reqs :
    /\ pc[r] # "idle"
    /\ callerInput[r] = [model |-> "gpt-caller", voice |-> "alloy"]
    /\ outbound[r].method = "POST"

\* C7: every request sent to the upstream carries Authorization: "Bearer "
\* followed by the credential in settings, which is the one loaded at
\* startup: all requests carry the same value, and settings never changes
\* once the process serves.
C7_BearerCredential ==
  /\ [](\A r \in Reqs : pc[r] # "idle" =>
         /\ outbound[r].headers.Authorization = << "Bearer ", settings.OPENAI_API_KEY >>
         /\ \A q \in Reqs : pc[q] # "idle" =>
              outbound[q].headers.Authorization = outbound[r].headers.Authorization)
  /\ [][proc = "serving" => settings' = settings]_vars

\* two requests were sent, and the .env file the credential came from has
\* changed since startup
C7_Witness ==
  \E r, q \in Reqs :
    /\ r # q
    /\ pc[r] = "done"
    /\ pc[q] = "awaiting"
    /\ osEnv = Unset
    /\ dotEnv # settings.OPENAI_API_KEY

\* C8: the number of upstream calls is the number of invocations, whether
\* they failed, got a non-200 or succeeded.
C8_OneCallPerInvocation ==
  upstreamCalls = Cardinality({r \in Reqs : pc[r] # "idle"})

\* two invocations have ended, one of them on a non-200 and one on an
\* exception, and a third call was never made
C8_Witness ==
  \E r, q \in Reqs :
    /\ GotNon200(r)
    /\ Done(q)
    /\ upstream[q].kind = "exception"
    /\ upstreamCalls >= 2

\* what belongs to one request
ReqState(r) ==
  << pc[r], callerInput[r], outbound[r], phase[r], waited[r], elapsed[r],
     upstream[r], result[r] >>

\* C9: a request's response is the handler's answer to its own upstream
\* response; a step changes the state of one request at most, never the
\* response of a request already answered, and never the settings.
C9_RequestsIndependent ==
  /\ [](\A r \in Reqs : Done(r) => result[r] = Respond(AfterAwait(upstream[r])))
  /\ [][/\ proc = "serving" => settings' = settings
        /\ \A r \in Reqs : Done(r) => result'[r] = result[r]
        /\ \A r, q \in Reqs :
             (r # q /\ ReqState(r)' # ReqState(r)) => ReqState(q)' = ReqState(q)]_vars

\* a request was answered while another one, with a different answer to
\* come, was still suspended in its upstream call
C9_Witness ==
  \E r, q \in Reqs :
    /\ r # q
    /\ Got200(r)
    /\ result[r].kind = "json"
    /\ pc[q] = "awaiting"
    /\ phase[q] = "read"
    /\ waited[q] > 0

\* C10: a 200 whose body is not JSON ends as a server error; and every
\* request ends as exactly one of: 200 with the upstream's JSON, an HTTP
\* error with the upstream's status, or a server error.
C10_AllOrNothing ==
  \A r \in Reqs : Done(r) =>
    /\ (Got200(r) /\ ~ValidJson(upstream[r].text)) =>
         (result[r].kind = "server_error" /\ result[r].status_code = 500)
    /\ \/ /\ result[r].kind = "json"
          /\ result[r].status_code = 200
          /\ Got200(r)
          /\ SameJson(result[r].body, upstream[r].text)
          /\ result[r].detail = << >>
       \/ /\ result[r].kind = "http_exception"
          /\ GotNon200(r)
          /\ result[r].status_code = upstream[r].status_code
       \/ /\ result[r].kind = "server_error"
          /\ result[r].status_code = 500
          /\ result[r].body = << R("Internal Server Error") >>

\* a 200 with a truncated JSON body ended as a server error
C10_Witness ==
  \E r \in Reqs :
    /\ Got200(r)
    /\ upstream[r].text = TruncatedBody
    /\ result[r].kind = "server_error"

====
